---- MODULE Spec2Model ----
(***************************************************************************)
(* The OBJ parser (ParseObjFile, src/parsing_obj.js) and the MTL parser    *)
(* (ParseMaterialFile, src/unnamed/part_000) as state machines.            *)
(*                                                                         *)
(* The OBJ parser keeps its tables, its geometry list and its cursors in   *)
(* module-level variables, so they live across calls; a call is modelled   *)
(* line by line: ObjCall, then one ObjLine per line of the text, then      *)
(* ObjReturn (the cleanup and the return).  An exception raised by a       *)
(* handler ends the call on the spot, without the cleanup.                 *)
(*                                                                         *)
(* JS arrays are sequences: the JS index i is the TLA+ index i + 1.        *)
(***************************************************************************)
EXTENDS Integers, Sequences, FiniteSets, TLC

\* Lines consumed in total, over all calls of both parsers.
MaxLines == 4

\* Frames drawn by the render loop.
MaxFrames == 2

VARIABLES
  objPositions, objTexcoords, objNormals, objColors,  \* the index tables
  materialLibs, geometries,
  geometry,        \* the current geometry: its place in geometries, 0 = undefined
  groups, material, object,
  pc,              \* "idle" | "parsing": inside a ParseObjFile call or not
  line,            \* the (trimmed) line the loop of ParseObjFile handled last
  outcome,         \* how the last call ended: "none" | "returned" | "thrown"
  \* history of the calls of ParseObjFile
  nlines,          \* lines consumed so far, over all calls
  seen,            \* the shapes of the lines of the current (or last) call so far
  base,            \* the length of each index table, and of the geometry list,
                   \* when that call was entered
  facePos,         \* the positions its faces referred to, in line order
  handed,          \* a call has returned {geometries, materialLibs}: the caller
                   \* holds the two module-level arrays themselves
  \* ParseMaterialFile: its locals, and the history of its calls
  materials, index,
  mpc, mtext, moutcome, mlines,
  \* main: where it is, and what it built
  mainpc,          \* "start" | "setup" | "rendering" | "rejected"
  rejectedBy,      \* what rejected the promise of main, "" if nothing did
  glTextures,      \* the textures of the GL context: what each one holds
  images,          \* the Image objects: [texture, src, state]
  parts,           \* what setupGeometry returned
  frames,          \* frames drawn so far
  pending,         \* frame callbacks requested and not yet run
  glState,         \* the active texture unit, the texture bound to each unit
                   \* and the unit each sampler uniform of the program reads
  sampled          \* the textures the last frame sampled, part by part

parserVars == <<objPositions, objTexcoords, objNormals, objColors, materialLibs,
                geometries, geometry, groups, material, object>>
objVars == <<parserVars, pc, line, outcome, nlines, seen, base, facePos, handed>>
mtlVars == <<materials, index, mpc, mtext, moutcome, mlines>>
mainVars == <<mainpc, rejectedBy, glTextures, images, parts, frames, pending,
              glState, sampled>>
vars == <<objVars, mtlVars, mainVars>>

-----------------------------------------------------------------------------
(* Conversions *)

\* parseFloat / parseInt on the numerals the input lines carry.
parseFloat(s) ==
  CASE s = "0" -> 0 [] s = "1" -> 1 [] s = "2" -> 2 [] s = "3" -> 3
    [] s = "4" -> 4 [] s = "5" -> 5 [] s = "6" -> 6 [] s = "7" -> 7
    [] s = "8" -> 8 [] s = "9" -> 9 [] s = "50" -> 50

parseInt(s) ==
  CASE s = "1" -> 1 [] s = "2" -> 2 [] s = "-1" -> -1 [] s = "-2" -> -2
    [] s = "0" -> 0

\* vert.split('/') on the vertex references the input faces carry.
split(vert) ==
  CASE vert = "1"      -> <<"1">>
    [] vert = "2"      -> <<"2">>
    [] vert = "-1"     -> <<"-1">>
    [] vert = "-2"     -> <<"-2">>
    [] vert = "1/1"    -> <<"1", "1">>
    [] vert = "-1/-1"  -> <<"-1", "-1">>
    [] vert = "1///1"  -> <<"1", "", "", "1">>

Map(op(_), s) == [i \in 1..Len(s) |-> op(s[i])]

\* value.slice(a, b) and value.slice(a), with JS indices.
slice(s, a, b) == [i \in 1..((IF b < Len(s) THEN b ELSE Len(s)) - a) |-> s[a + i]]

-----------------------------------------------------------------------------
(* Input lines, already trimmed: the text of the line, what keywordRegex   *)
(* captures from it and what line.split(/\s+/).slice(1) gives.  The vn     *)
(* handler is the vt handler on another table; the texts explored carry vt *)
(* lines only.                                                             *)

Ln(l, k, raw, val) == [line |-> l, keyword |-> k, RawArguments |-> raw, value |-> val]

VLines ==
  { Ln("v 1 2 3", "v", "1 2 3", <<"1", "2", "3">>),
    Ln("v 4 5 6", "v", "4 5 6", <<"4", "5", "6">>),
    Ln("v 7 8 9 1 0 0", "v", "7 8 9 1 0 0", <<"7", "8", "9", "1", "0", "0">>) }
VtLines ==
  { Ln("vt 1 2", "vt", "1 2", <<"1", "2">>),
    Ln("vt 1 2 0", "vt", "1 2 0", <<"1", "2", "0">>) }
VnLines == { Ln("vn 0 0 1", "vn", "0 0 1", <<"0", "0", "1">>) }
FLines ==
  { Ln("f 1 1", "f", "1 1", <<"1", "1">>),
    Ln("f 1 -1 1 -1", "f", "1 -1 1 -1", <<"1", "-1", "1", "-1">>),
    Ln("f 1 2 1", "f", "1 2 1", <<"1", "2", "1">>),
    Ln("f 1/1 -1/-1 1/1", "f", "1/1 -1/-1 1/1", <<"1/1", "-1/-1", "1/1">>),
    Ln("f 1///1 1///1 1///1", "f", "1///1 1///1 1///1", <<"1///1", "1///1", "1///1">>) }
StateLines ==
  { Ln("usemtl m1", "usemtl", "m1", <<"m1">>),
    Ln("g g1", "g", "g1", <<"g1">>),
    Ln("o A", "o", "A", <<"A">>) }
OtherLines == { Ln("mtllib a.mtl", "mtllib", "a.mtl", <<"a.mtl">>) }
\* Lines the loop skips, and lines whose keyword is none of the recognized ones.
SkippedLines == { Ln("", "", "", <<>>) }
UnknownLines ==
  { Ln("foo 1", "foo", "1", <<"1">>),
    Ln("valueOf", "valueOf", "", <<>>) }

ObjLines == VLines \cup VtLines \cup VnLines \cup FLines \cup StateLines
              \cup OtherLines \cup SkippedLines \cup UnknownLines

startsWithHash(l) == l \in {"# c"}

-----------------------------------------------------------------------------
(* keywords[keyword]: a property lookup on an object literal.  Besides the *)
(* own properties, it finds what the literal inherits from                 *)
(* Object.prototype; called as handler(value, RawArguments) in strict mode *)
(* (this = undefined), Object.prototype.valueOf raises a TypeError.        *)

ObjKeywords == {"v", "vn", "vt", "f", "s", "mtllib", "usemtl", "g", "o"}
PrototypeThrowing == {"valueOf", "hasOwnProperty", "isPrototypeOf",
                      "propertyIsEnumerable", "toLocaleString", "__proto__"}
PrototypeHarmless == {"constructor", "toString"}

lookup(own, keyword) ==
  IF keyword \in own THEN keyword
  ELSE IF keyword \in PrototypeThrowing THEN "inherited, throws"
  ELSE IF keyword \in PrototypeHarmless THEN "inherited, no effect"
  ELSE "undefined"

-----------------------------------------------------------------------------
(* The OBJ parser *)

DataKeys == {"position", "texcoord", "normal", "color"}

\* objVertexData[i], i the place of a sub-index in a vertex reference.
objVertexData(i) ==
  CASE i = 0 -> objPositions [] i = 1 -> objTexcoords
    [] i = 2 -> objNormals   [] i = 3 -> objColors

dataKey(i) ==
  CASE i = 0 -> "position" [] i = 1 -> "texcoord" [] i = 2 -> "normal" [] i = 3 -> "color"

\* table[index] is undefined outside 0..length-1.
defined(table, idx) == idx >= 0 /\ idx < Len(table)
at(table, idx) == table[idx + 1]

\* objIndex + (objIndex >= 0 ? 0 : objVertexData[i].length)
\* resolve with the length taken one short for a negative index.
resolveNegativeShort(objIndex, i) ==
  objIndex + (IF objIndex >= 0 THEN 0 ELSE Len(objVertexData(i)) - 1)

\* resolve with a positive index taken as it is, one past the JS index 0.
resolvePositiveLong(objIndex, i) ==
  objIndex + (IF objIndex >= 0 THEN 1 ELSE Len(objVertexData(i)))

resolve(objIndex, i) ==
  objIndex + (IF objIndex >= 0 THEN 0 ELSE Len(objVertexData(i)))

\* target.push(...tuple) on the acc [data, thrown]: a TypeError when the
\* array was deleted from data or when the tuple is undefined.
push(acc, key, table, idx) ==
  IF acc.thrown THEN acc
  ELSE IF key \notin DOMAIN acc.data \/ ~defined(table, idx)
    THEN [acc EXCEPT !.thrown = TRUE]
    ELSE [acc EXCEPT !.data = [k \in DOMAIN acc.data |->
            IF k = key THEN acc.data[k] \o at(table, idx) ELSE acc.data[k]]]

\* The body of ptn.forEach for the sub-index at place i.
addField(acc, objIndexStr, i) ==
  IF acc.thrown \/ objIndexStr = "" THEN acc
  ELSE LET idx == resolve(parseInt(objIndexStr), i)
           a1 == push(acc, dataKey(i), objVertexData(i), idx)
       IN IF i = 0 /\ Len(objColors) > 1
            THEN push(a1, "color", objColors, idx)
            ELSE a1

RECURSIVE addFields(_, _, _)
addFields(acc, ptn, i) ==
  IF i >= Len(ptn) THEN acc
  ELSE addFields(addField(acc, ptn[i + 1], i), ptn, i + 1)

addVertex(acc, vert) == addFields(acc, split(vert), 0)

\* One turn of the loop of f.
addTriangle(acc, value, tri) ==
  addVertex(addVertex(addVertex(acc, value[1]), value[tri + 2]), value[tri + 3])

RECURSIVE addTriangles(_, _, _)
addTriangles(acc, value, tri) ==
  IF tri >= Len(value) - 2 THEN acc
  ELSE addTriangles(addTriangle(acc, value, tri), value, tri + 1)

emptyData == [k \in DataKeys |-> <<>>]

\* What a handler leaves: the state it wrote and whether it raised.
St == [objPositions |-> objPositions, objTexcoords |-> objTexcoords,
       objNormals |-> objNormals, objColors |-> objColors,
       materialLibs |-> materialLibs, geometries |-> geometries,
       geometry |-> geometry, groups |-> groups, material |-> material,
       object |-> object, thrown |-> FALSE]

setGeometry(st) ==
  IF st.geometry = 0
    THEN [st EXCEPT
            !.geometries = Append(st.geometries,
               [object |-> st.object, groups |-> st.groups,
                material |-> st.material, data |-> emptyData]),
            !.geometry = Len(st.geometries) + 1]
    ELSE st

\* newGeometry never letting go of the current geometry.
newGeometryKeeping(st) == st

newGeometry(st) ==
  IF st.geometry = 0 THEN st
  ELSE IF "position" \notin DOMAIN st.geometries[st.geometry].data
    THEN [st EXCEPT !.thrown = TRUE]     \* undefined.length
  ELSE IF Len(st.geometries[st.geometry].data.position) # 0
    THEN [st EXCEPT !.geometry = 0]
  ELSE st

v(st, value) ==
  IF Len(value) > 3
    THEN [st EXCEPT
            !.objPositions = Append(@, Map(parseFloat, slice(value, 0, 3))),
            !.objColors = Append(@, Map(parseFloat, slice(value, 3, Len(value))))]
    ELSE [st EXCEPT !.objPositions = Append(@, Map(parseFloat, value))]

vn(st, value) == [st EXCEPT !.objNormals = Append(@, Map(parseFloat, value))]

\* vt pushing onto the table of the normals.
vtIntoNormals(st, value) == vn(st, value)

vt(st, value) == [st EXCEPT !.objTexcoords = Append(@, Map(parseFloat, value))]

f(st, value) ==
  LET s1 == setGeometry(st)
      acc == addTriangles([data |-> s1.geometries[s1.geometry].data, thrown |-> FALSE],
                          value, 0)
  IN [s1 EXCEPT !.geometries[s1.geometry].data = acc.data, !.thrown = acc.thrown]

mtllib(st, RawValue) == [st EXCEPT !.materialLibs = Append(@, RawValue)]

usemtl(st, value) == newGeometry([st EXCEPT !.material = value[1]])

g(st, value) == newGeometry([st EXCEPT !.groups = value])

o(st, value) == newGeometry([st EXCEPT !.object = value[1]])

\* The body of text.split('\n').forEach for one line.
objLine(st, ln) ==
  IF ln.line = "" \/ startsWithHash(ln.line) THEN st
  ELSE LET handler == lookup(ObjKeywords, ln.keyword) IN
    CASE handler = "undefined" -> st            \* console.warn, return
      [] handler = "inherited, no effect" -> st
      [] handler = "inherited, throws" -> [st EXCEPT !.thrown = TRUE]
      [] handler = "v" -> v(st, ln.value)
      [] handler = "vn" -> vn(st, ln.value)
      [] handler = "vt" -> vt(st, ln.value)
      [] handler = "f" -> f(st, ln.value)
      [] handler = "s" -> st
      [] handler = "mtllib" -> mtllib(st, ln.RawArguments)
      [] handler = "usemtl" -> usemtl(st, ln.value)
      [] handler = "g" -> g(st, ln.value)
      [] handler = "o" -> o(st, ln.value)

\* The cleanup loop without its delete.
cleanupKeepsEmpty(gs) == gs

\* "Remove empty arrays from geometry data", for every geometry of the list.
cleanup(gs) ==
  [n \in 1..Len(gs) |->
     [gs[n] EXCEPT !.data =
        [k \in {k \in DOMAIN gs[n].data : Len(gs[n].data[k]) # 0} |-> gs[n].data[k]]]]

-----------------------------------------------------------------------------
(* The MTL parser *)

MtlKeywords == {"newmtl", "Ns", "Ka", "Kd", "Ks", "Ke", "map_Kd", "map_Ns",
                "Ni", "d", "illum"}

MtlLines ==
  { Ln("newmtl X", "newmtl", "X", <<"X">>),
    Ln("newmtl Y", "newmtl", "Y", <<"Y">>),
    Ln("Ns 50", "Ns", "50", <<"50">>),
    Ln("Ka 0 0 1", "Ka", "0 0 1", <<"0", "0", "1">>),
    Ln("Kd 1 0 0", "Kd", "1 0 0", <<"1", "0", "0">>),
    Ln("Ks 0 1 0", "Ks", "0 1 0", <<"0", "1", "0">>),
    Ln("Ke 0 0 0", "Ke", "0 0 0", <<"0", "0", "0">>),
    Ln("map_Kd my tex.png", "map_Kd", "my tex.png", <<"my", "tex.png">>),
    Ln("map_Ns s.png", "map_Ns", "s.png", <<"s.png">>),
    Ln("Ni 1", "Ni", "1", <<"1">>),
    Ln("d 1", "d", "1", <<"1">>),
    Ln("illum 2", "illum", "2", <<"2">>),
    Ln("", "", "", <<>>),
    Ln("# c", "", "# c", <<"c">>),
    Ln("foo 1", "foo", "1", <<"1">>),
    Ln("valueOf", "valueOf", "", <<>>) }

\* value.join(" ") on the file names the input lines carry.
join(value) ==
  CASE value = <<"my", "tex.png">> -> "my tex.png"
    [] value = <<"s.png">> -> "s.png"

\* let index; is undefined until the first newmtl, and materials[undefined]
\* is the property "undefined" of materials.
undefined == "undefined"

NoRecord == [k \in {} |-> 0]

\* materials[index].key = val: a TypeError when materials[index] is undefined.
\* The assignment creating the record it does not find.
setPropertyCreating(ms, key, val) ==
  [ms EXCEPT !.materials =
     [n \in DOMAIN @ \cup {ms.index} |->
        IF n = ms.index
          THEN [k \in (IF n \in DOMAIN @ THEN DOMAIN @[n] ELSE {}) \cup {key} |->
                  IF k = key THEN val ELSE @[n][k]]
          ELSE @[n]]]

setProperty(ms, key, val) ==
  IF ms.index \notin DOMAIN ms.materials
    THEN [ms EXCEPT !.thrown = TRUE]
    ELSE [ms EXCEPT !.materials[ms.index] =
            [k \in DOMAIN @ \cup {key} |-> IF k = key THEN val ELSE @[k]]]

\* newmtl keeping the record a name already has.
newmtlKeeping(ms, value) ==
  [ms EXCEPT !.index = value[1],
             !.materials = [n \in DOMAIN @ \cup {value[1]} |->
                              IF n \in DOMAIN @ THEN @[n] ELSE NoRecord]]

newmtl(ms, value) ==
  [ms EXCEPT !.index = value[1],
             !.materials = [n \in DOMAIN @ \cup {value[1]} |->
                              IF n = value[1] THEN NoRecord ELSE @[n]]]

Ns(ms, value) == setProperty(ms, "shininess", parseFloat(value[1]))
Ka(ms, value) == setProperty(ms, "ambient", Map(parseFloat, value))
Kd(ms, value) == setProperty(ms, "diffuse", Map(parseFloat, value))
Ks(ms, value) == setProperty(ms, "specular", Map(parseFloat, value))
Ke(ms, value) == setProperty(ms, "emissive", Map(parseFloat, value))
map_Kd(ms, value) == setProperty(ms, "diffuseMap", join(value))
map_Ns(ms, value) == setProperty(ms, "specularMap", join(value))
Ni(ms, value) == setProperty(ms, "IOR", parseFloat(value[1]))
d(ms, value) == setProperty(ms, "opacity", parseFloat(value[1]))
illum(ms, value) == setProperty(ms, "illum", parseInt(value[1]))

\* The body of text.split('\n').forEach of ParseMaterialFile for one line.
mtlLine(ms, ln) ==
  IF ln.line = "" \/ startsWithHash(ln.line) THEN ms
  ELSE LET handler == lookup(MtlKeywords, ln.keyword) IN
    CASE handler = "undefined" -> ms            \* console.warn, return
      [] handler = "inherited, no effect" -> ms
      [] handler = "inherited, throws" -> [ms EXCEPT !.thrown = TRUE]
      [] handler = "newmtl" -> newmtl(ms, ln.value)
      [] handler = "Ns" -> Ns(ms, ln.value)
      [] handler = "Ka" -> Ka(ms, ln.value)
      [] handler = "Kd" -> Kd(ms, ln.value)
      [] handler = "Ks" -> Ks(ms, ln.value)
      [] handler = "Ke" -> Ke(ms, ln.value)
      [] handler = "map_Kd" -> map_Kd(ms, ln.value)
      [] handler = "map_Ns" -> map_Ns(ms, ln.value)
      [] handler = "Ni" -> Ni(ms, ln.value)
      [] handler = "d" -> d(ms, ln.value)
      [] handler = "illum" -> illum(ms, ln.value)

-----------------------------------------------------------------------------
(* History of a ParseObjFile call: what the faces of its text refer to,    *)
(* read off the OBJ format (1 is the first entry of a table, -1 its last). *)

Declared(table) == Len(table) - 1      \* entries besides the one at JS index 0

RefersTo(table, objIndex) ==
  IF objIndex > 0 /\ objIndex <= Declared(table) THEN table[objIndex + 1]
  ELSE IF objIndex < 0 /\ -objIndex <= Declared(table)
    THEN table[Len(table) + 1 + objIndex]
  ELSE <<>>

\* Every sub-index of the references is a valid OBJ index: k or -k with
\* 1 <= k <= the number of entries declared so far.
ValidRefs(value) ==
  \A n \in 1..Len(value) : \A i \in 1..Len(split(value[n])) :
     LET str == split(value[n])[i] IN
       str # "" => LET k == parseInt(str) IN
                     /\ k # 0
                     /\ k <= Declared(objVertexData(i - 1))
                     /\ -k <= Declared(objVertexData(i - 1))

\* The vertices of the triangle fan of a face, apex first.
RECURSIVE Fan(_, _)
Fan(value, t) ==
  IF t > Len(value) - 2 THEN <<>>
  ELSE <<value[1], value[t + 1], value[t + 2]>> \o Fan(value, t + 1)

RECURSIVE Flatten(_)
Flatten(tuples) ==
  IF tuples = <<>> THEN <<>> ELSE Head(tuples) \o Flatten(Tail(tuples))

FacePositions(value) ==
  Flatten([n \in 1..Len(Fan(value, 1)) |->
             RefersTo(objPositions, parseInt(split(Fan(value, 1)[n])[1]))])

-----------------------------------------------------------------------------
(* Actions *)

\* The shape of a line: "v" or "v rgb" (a v line that carries a color),
\* "f" (a face of position sub-indices), "f /" (a face with further
\* sub-indices), "f ?" (a face with a reference to no declared entry),
\* "state" (usemtl, g, o), "" for every other line.
shape(ln) ==
  IF ln.keyword = "v" THEN (IF Len(ln.value) > 3 THEN "v rgb" ELSE "v")
  ELSE IF ln.keyword = "f" THEN
    (IF ~ValidRefs(ln.value) THEN "f ?"
     ELSE IF \E n \in 1..Len(ln.value) : Len(split(ln.value[n])) > 1 THEN "f /"
     ELSE "f")
  ELSE IF ln.keyword \in {"usemtl", "g", "o"} THEN "state"
  ELSE ""

\* The lengths of the index tables and of the geometry list.
lengths ==
  [position |-> Len(objPositions), texcoord |-> Len(objTexcoords),
   normal |-> Len(objNormals), color |-> Len(objColors),
   geometries |-> Len(geometries)]

Init ==
  /\ objPositions = << <<0, 0, 0>> >>
  /\ objTexcoords = << <<0, 0>> >>
  /\ objNormals = << <<0, 0, 0>> >>
  /\ objColors = << <<0, 0, 0>> >>
  /\ materialLibs = <<>>
  /\ geometries = <<>>
  /\ geometry = 0
  /\ groups = <<"default">>
  /\ material = "default"
  /\ object = "default"
  /\ pc = "idle"
  /\ line = ""
  /\ outcome = "none"
  /\ nlines = 0
  /\ seen = {}
  /\ base = [position |-> 1, texcoord |-> 1, normal |-> 1, color |-> 1,
             geometries |-> 0]
  /\ facePos = <<>>
  /\ handed = FALSE
  /\ materials = [n \in {} |-> NoRecord]
  /\ index = undefined
  /\ mpc = "idle"
  /\ mtext = <<>>
  /\ moutcome = "none"
  /\ mlines = 0
  /\ mainpc = "start"
  /\ rejectedBy = ""
  /\ glTextures = <<>>
  /\ images = <<>>
  /\ parts = <<>>
  /\ frames = 0
  /\ pending = 0
  /\ glState = [active |-> 0, bound |-> [unit \in 0..1 |-> 0],
                uniforms |-> [diffuseMap |-> 0, specularMap |-> 0]]
  /\ sampled = <<>>

\* An entry of ParseObjFile that starts from the tables and lists as loaded.
ObjCallResetting ==
  /\ pc = "idle"
  /\ nlines < MaxLines
  /\ pc' = "parsing"
  /\ outcome' = "none"
  /\ seen' = {}
  /\ objPositions' = << <<0, 0, 0>> >>
  /\ objTexcoords' = << <<0, 0>> >>
  /\ objNormals' = << <<0, 0, 0>> >>
  /\ objColors' = << <<0, 0, 0>> >>
  /\ materialLibs' = <<>>
  /\ geometries' = <<>>
  /\ geometry' = 0
  /\ base' = [position |-> 1, texcoord |-> 1, normal |-> 1, color |-> 1,
              geometries |-> 0]
  /\ facePos' = <<>>
  /\ UNCHANGED <<groups, material, object, line, nlines, handed, mtlVars, mainVars>>

\* ParseObjFile(text) is entered; text.split('\n') holds at least one line.
ObjCall ==
  /\ pc = "idle"
  /\ nlines < MaxLines
  /\ pc' = "parsing"
  /\ outcome' = "none"
  /\ seen' = {}
  /\ base' = lengths
  /\ facePos' = <<>>
  /\ UNCHANGED <<parserVars, line, nlines, handed, mtlVars, mainVars>>

\* The next line of the text goes through the loop body.
ObjLine ==
  /\ pc = "parsing"
  /\ nlines < MaxLines
  /\ \E ln \in ObjLines :
       LET st == objLine(St, ln) IN
         /\ line' = ln.line
         /\ seen' = seen \cup {shape(ln)}
         /\ facePos' = IF ln.keyword = "f" THEN facePos \o FacePositions(ln.value)
                       ELSE facePos
         /\ objPositions' = st.objPositions
         /\ objTexcoords' = st.objTexcoords
         /\ objNormals' = st.objNormals
         /\ objColors' = st.objColors
         /\ materialLibs' = st.materialLibs
         /\ geometries' = st.geometries
         /\ geometry' = st.geometry
         /\ groups' = st.groups
         /\ material' = st.material
         /\ object' = st.object
         /\ pc' = IF st.thrown THEN "idle" ELSE "parsing"
         /\ outcome' = IF st.thrown THEN "thrown" ELSE "none"
  /\ nlines' = nlines + 1
  /\ UNCHANGED <<base, handed, mtlVars, mainVars>>

\* The text is exhausted: the cleanup, then the return of {geometries, materialLibs}.
ObjReturn ==
  /\ pc = "parsing"
  /\ seen # {}
  /\ geometries' = cleanup(geometries)
  /\ pc' = "idle"
  /\ outcome' = "returned"
  /\ handed' = TRUE
  /\ UNCHANGED <<objPositions, objTexcoords, objNormals, objColors, materialLibs,
                 geometry, groups, material, object, line, nlines, seen,
                 base, facePos, mtlVars, mainVars>>

Next == ObjCall \/ ObjLine \/ ObjReturn

Spec == Init /\ [][Next]_vars

\* ParseMaterialFile(text) is entered: materials = {}, index is not set.
MtlCall ==
  /\ mpc = "idle"
  /\ mlines < MaxLines
  /\ mpc' = "parsing"
  /\ materials' = [n \in {} |-> NoRecord]
  /\ index' = undefined
  /\ mtext' = <<>>
  /\ moutcome' = "none"
  /\ UNCHANGED <<mlines, objVars, mainVars>>

MtlLine ==
  /\ mpc = "parsing"
  /\ mlines < MaxLines
  /\ \E ln \in MtlLines :
       LET ms == mtlLine([materials |-> materials, index |-> index, thrown |-> FALSE], ln)
       IN /\ mtext' = Append(mtext, ln)
          /\ materials' = ms.materials
          /\ index' = ms.index
          /\ mpc' = IF ms.thrown THEN "idle" ELSE "parsing"
          /\ moutcome' = IF ms.thrown THEN "thrown" ELSE "none"
  /\ mlines' = mlines + 1
  /\ UNCHANGED <<objVars, mainVars>>

\* The text is exhausted: return materials.
MtlReturn ==
  /\ mpc = "parsing"
  /\ mtext # <<>>
  /\ mpc' = "idle"
  /\ moutcome' = "returned"
  /\ UNCHANGED <<materials, index, mtext, mlines, objVars, mainVars>>

MtlNext == MtlCall \/ MtlLine \/ MtlReturn

\* The two parsers share no state: each is explored on its own.
SpecMtl == Init /\ [][MtlNext]_vars

-----------------------------------------------------------------------------
(* main: loadOBJ, loadMaterials, setupGeometry and the render loop *)

\* The first (and only) element of a set of at most one element, as a tuple.
asTuple(S) == IF S = {} THEN <<>> ELSE <<CHOOSE x \in S : TRUE>>

\* One line of ParseMaterialFile.  Beside materials, names and keys keep the
\* order in which Object.values and Object.entries enumerate the records
\* and the properties of a record: the order of their creation.
mtlLineOrdered(ms, ln) ==
  LET r == mtlLine(ms, ln) IN
    IF r.thrown THEN r
    ELSE [r EXCEPT
      !.names = @ \o asTuple(DOMAIN r.materials \ DOMAIN ms.materials),
      !.keys = [n \in DOMAIN r.materials |->
                  IF n \notin DOMAIN ms.materials THEN <<>>
                  ELSE IF DOMAIN r.materials[n] = {} THEN <<>>
                  ELSE ms.keys[n]
                         \o asTuple(DOMAIN r.materials[n] \ DOMAIN ms.materials[n])]]

RECURSIVE mtlLines(_, _, _)
mtlLines(ms, text, i) ==
  IF i > Len(text) \/ ms.thrown THEN ms
  ELSE mtlLines(mtlLineOrdered(ms, text[i]), text, i + 1)

ParseMaterialFile(text) ==
  mtlLines([materials |-> [n \in {} |-> NoRecord], index |-> undefined,
            thrown |-> FALSE, names |-> <<>>, keys |-> [n \in {} |-> <<>>]],
           text, 1)

\* new URL(filename, baseHref).href, as a path on the host of the page.
href(filename) ==
  CASE filename = "a.mtl" -> "/a.mtl"
    [] filename = "my tex.png" -> "/my%20tex.png"
    [] filename = "s.png" -> "/s.png"

white == <<255, 255, 255, 255>>
placeholder == <<128, 192, 255, 255>>

\* gl.createTexture and texImage2D of one pixel: the new texture is the last.
create1PixelTexture(gl, pixel) == Append(gl, [width |-> 1, height |-> 1, pixel |-> pixel])

\* createTexture: a placeholder texture, and an Image that loads url.
createTexture(acc, url) ==
  [acc EXCEPT !.gl = create1PixelTexture(@, placeholder),
              !.images = Append(@, [texture |-> Len(acc.gl) + 1, src |-> url,
                                    state |-> "loading"])]

endsWithMap(key) == key \in {"diffuseMap", "specularMap"}

\* textures[filename]; 0 stands for undefined.
lookupTextureMissing(textures, filename) == 0

lookupTexture(textures, filename) ==
  IF filename \in DOMAIN textures THEN textures[filename] ELSE 0

\* The body of the forEach over the entries of a material.
loadTexture(acc, name, key) ==
  IF ~endsWithMap(key) THEN acc
  ELSE LET filename == acc.filenames[name][key]
           texture == lookupTexture(acc.textures, filename)
       IN IF texture = 0
            THEN LET c == createTexture(acc, href(filename))
                     new == Len(c.gl)
                 IN [c EXCEPT
                       !.textures = [fn \in DOMAIN @ \cup {filename} |->
                                       IF fn = filename THEN new ELSE @[fn]],
                       !.materials[name][key] = new]
            ELSE [acc EXCEPT !.materials[name][key] = texture]

\* The entries of all materials, in the order the two loops visit them.
entriesOf(ms) ==
  Flatten([i \in 1..Len(ms.names) |->
             [j \in 1..Len(ms.keys[ms.names[i]]) |->
                <<ms.names[i], ms.keys[ms.names[i]][j]>>]])

RECURSIVE loadTextures(_, _, _)
loadTextures(acc, entries, i) ==
  IF i > Len(entries) THEN acc
  ELSE loadTextures(loadTexture(acc, entries[i][1], entries[i][2]), entries, i + 1)

\* m.shininess = 25; m.specular = [3, 2, 1]; for every material.
override(record) ==
  [k \in DOMAIN record \cup {"shininess", "specular"} |->
     CASE k = "shininess" -> 25
       [] k = "specular" -> <<3, 2, 1>>
       [] OTHER -> record[k]]

\* loadMaterials once the texts are fetched and ParseMaterialFile returned ms.
loadMaterials(ms, gl, imgs) ==
  LET start == [materials |-> ms.materials, filenames |-> ms.materials,
                textures |-> [fn \in {"defaultWhite"} |-> Len(gl) + 1],
                gl |-> create1PixelTexture(gl, white), images |-> imgs]
      acc == loadTextures(start, entriesOf(ms), 1)
  IN [acc EXCEPT !.materials = [n \in DOMAIN @ |-> override(@[n])]]

\* { ...defaultMaterial, ...record }
spread(defaultMaterial, record) ==
  [k \in DOMAIN defaultMaterial \cup DOMAIN record |->
     IF k \in DOMAIN record THEN record[k] ELSE defaultMaterial[k]]

defaultMaterial(diffuseMap, specularMap) ==
  [diffuse |-> <<1, 1, 1>>, diffuseMap |-> diffuseMap, ambient |-> <<0, 0, 0>>,
   specular |-> <<1, 1, 1>>, specularMap |-> specularMap, shininess |-> 400,
   opacity |-> 1]

\* What setupGeometry makes of data.color.
colorAttrib(data) ==
  IF "color" \in DOMAIN data
    THEN (IF Len(data.position) = Len(data.color)
            THEN [numComponents |-> 3, data |-> data.color]
            ELSE [raw |-> data.color])
    ELSE [value |-> <<1, 1, 1, 1>>]

setupGeometry(gs, mats, diffuseMap, specularMap) ==
  [n \in 1..Len(gs) |->
     [material |-> spread(defaultMaterial(diffuseMap, specularMap),
                          IF gs[n].material \in DOMAIN mats
                            THEN mats[gs[n].material] ELSE NoRecord),
      bufferInfo |-> [numElements |-> Len(gs[n].data.position) \div 3,
                      a_color |-> colorAttrib(gs[n].data)]]]

\* Binding with a texture already bound to the unit left in place.
bindTextureOnce(gl, texture) ==
  IF gl.bound[gl.active] = 0 THEN [gl EXCEPT !.bound[gl.active] = texture] ELSE gl

\* gl.bindTexture(gl.TEXTURE_2D, texture): to the active unit.
bindTexture(gl, texture) == [gl EXCEPT !.bound[gl.active] = texture]

\* gl.texImage2D(gl.TEXTURE_2D, ...): into the texture bound to the active unit.
texImage2D(gl, textures, content) ==
  [textures EXCEPT ![gl.bound[gl.active]] = content]

\* case gl.SAMPLER_2D of setUniforms: uniform1i, activeTexture, bindTexture.
setSampler(acc, uniformName, value) ==
  [gl |-> bindTexture([acc.gl EXCEPT !.uniforms[uniformName] = acc.textureUnit,
                                     !.active = acc.textureUnit], value),
   textureUnit |-> acc.textureUnit + 1]

\* setUniforms over a material: of its uniforms, the two samplers touch the
\* textures; Object.keys gives diffuseMap before specularMap.
setUniforms(gl, uniforms) ==
  setSampler(setSampler([gl |-> gl, textureUnit |-> 0],
                        "diffuseMap", uniforms.diffuseMap),
             "specularMap", uniforms.specularMap).gl

\* gl.drawArrays: each sampler reads the texture bound to the unit it holds.
drawArrays(gl) ==
  [diffuseMap |-> gl.bound[gl.uniforms.diffuseMap],
   specularMap |-> gl.bound[gl.uniforms.specularMap]]

\* The loop of drawScene over the parts.
RECURSIVE drawParts(_, _, _)
drawParts(acc, ps, n) ==
  IF n > Len(ps) THEN acc
  ELSE LET gl1 == setUniforms(acc.gl, ps[n].material)
       IN drawParts([gl |-> gl1, sampled |-> Append(acc.sampled, drawArrays(gl1))],
                    ps, n + 1)

drawScene(gl, ps) == drawParts([gl |-> gl, sampled |-> <<>>], ps, 1)

\* The texts of the OBJ file and of the MTL files the page may be served.
objText(ls) == [i \in 1..Len(ls) |-> CHOOSE ln \in ObjLines : ln.line = ls[i]]

ObjTexts ==
  { objText(<<"mtllib a.mtl", "v 1 2 3", "usemtl m1", "f 1 -1 1 -1">>),
    objText(<<"mtllib a.mtl", "v 1 2 3", "f 1 -1 1 -1">>),
    objText(<<"v 1 2 3", "f 1 -1 1 -1">>),
    objText(<<"v 7 8 9 1 0 0", "f 1 -1 1 -1", "usemtl m1", "f 1 1">>),
    objText(<<"v 1 2 3", "f 1 2 1">>),
    objText(<<"f 1 1">>) }

MtlTexts ==
  { << Ln("newmtl m1", "newmtl", "m1", <<"m1">>),
       Ln("Kd 1 0 0", "Kd", "1 0 0", <<"1", "0", "0">>),
       Ln("Ns 50", "Ns", "50", <<"50">>),
       Ln("map_Kd my tex.png", "map_Kd", "my tex.png", <<"my", "tex.png">>) >>,
    << Ln("newmtl m1", "newmtl", "m1", <<"m1">>),
       Ln("map_Kd s.png", "map_Kd", "s.png", <<"s.png">>),
       Ln("map_Ns s.png", "map_Ns", "s.png", <<"s.png">>),
       Ln("newmtl X", "newmtl", "X", <<"X">>),
       Ln("map_Kd s.png", "map_Kd", "s.png", <<"s.png">>) >>,
    << Ln("newmtl X", "newmtl", "X", <<"X">>),
       Ln("Kd 1 0 0", "Kd", "1 0 0", <<"1", "0", "0">>) >>,
    << Ln("newmtl m1", "newmtl", "m1", <<"m1">>),
       Ln("map_Kd my tex.png", "map_Kd", "my tex.png", <<"my", "tex.png">>),
       Ln("map_Ns s.png", "map_Ns", "s.png", <<"s.png">>) >>,
    << Ln("Kd 1 0 0", "Kd", "1 0 0", <<"1", "0", "0">>) >> }

\* What fetch gives: a rejection (no network, CORS), or a response whose
\* text is that of the file, or the page of a 404.
NotFound == << Ln("Not Found", "Not", "Found", <<"Found">>) >>
Responses ==
  {[rejected |-> TRUE, text |-> <<>>]}
    \cup {[rejected |-> FALSE, text |-> t] : t \in MtlTexts \cup {NotFound}}

\* matTexts.join('\n')
RECURSIVE joinTexts(_, _)
joinTexts(texts, i) ==
  IF i > Len(texts) THEN <<>> ELSE texts[i].text \o joinTexts(texts, i + 1)

\* The text follows one of ObjTexts, line after line.
Scripted ==
  \E text \in ObjTexts :
    /\ nlines' <= Len(text)
    /\ text[nlines'].line = line'
    /\ nlines = 0 \/ text[nlines].line = line

ScriptEnds ==
  \E text \in ObjTexts : Len(text) = nlines /\ text[nlines].line = line

\* const obj = await loadOBJ(gl, objHref): the fetch may reject; if not,
\* ParseObjFile runs on the text, once.
FetchObjRejected ==
  /\ mainpc = "start" /\ pc = "idle" /\ outcome = "none"
  /\ mainpc' = "rejected"
  /\ rejectedBy' = "fetch obj"
  /\ UNCHANGED <<objVars, mtlVars, glTextures, images, parts, frames, pending,
                 glState, sampled>>

LoadOBJ ==
  /\ mainpc = "start"
  /\ \/ ObjCall /\ nlines = 0 /\ outcome = "none"
     \/ ObjLine /\ Scripted
     \/ ObjReturn /\ ScriptEnds

\* ParseObjFile threw: the promise of main is rejected.
LoadOBJThrew ==
  /\ mainpc = "start" /\ pc = "idle" /\ outcome = "thrown"
  /\ mainpc' = "rejected"
  /\ rejectedBy' = "ParseObjFile"
  /\ UNCHANGED <<objVars, mtlVars, glTextures, images, parts, frames, pending,
                 glState, sampled>>

\* const materials = await loadMaterials(gl, obj, objHref);
LoadMaterials ==
  /\ mainpc = "start" /\ pc = "idle" /\ outcome = "returned"
  /\ \E responses \in [1..Len(materialLibs) -> Responses] :
       IF \E i \in 1..Len(materialLibs) : responses[i].rejected
         THEN /\ mainpc' = "rejected"
              /\ rejectedBy' = "fetch mtl"
              /\ UNCHANGED <<mtlVars, glTextures, images, glState>>
         ELSE LET text == joinTexts(responses, 1)
                  ms == ParseMaterialFile(text)
                  loaded == loadMaterials(ms, glTextures, images)
              IN /\ mtext' = text
                 /\ index' = ms.index
                 /\ moutcome' = IF ms.thrown THEN "thrown" ELSE "returned"
                 /\ materials' = IF ms.thrown THEN ms.materials ELSE loaded.materials
                 /\ glTextures' = IF ms.thrown THEN glTextures ELSE loaded.gl
                 /\ images' = IF ms.thrown THEN images ELSE loaded.images
                 /\ glState' = IF ms.thrown THEN glState
                                ELSE bindTexture(glState, Len(loaded.gl))
                 /\ mainpc' = IF ms.thrown THEN "rejected" ELSE "setup"
                 /\ rejectedBy' = IF ms.thrown THEN "ParseMaterialFile" ELSE ""
                 /\ UNCHANGED <<mpc, mlines>>
  /\ UNCHANGED <<objVars, parts, frames, pending, sampled>>

\* getGeometriesExtents, setupCamera, setupGeometry and the first
\* requestAnimationFrame(render).
SetupGeometry ==
  /\ mainpc = "setup"
  /\ IF \E n \in 1..Len(geometries) : "position" \notin DOMAIN geometries[n].data
       THEN /\ mainpc' = "rejected"          \* getExtents: undefined.slice
            /\ rejectedBy' = "getExtents"
            /\ UNCHANGED <<geometries, glTextures, parts, glState, pending>>
       ELSE LET gl1 == create1PixelTexture(glTextures, white)
                gl2 == create1PixelTexture(gl1, white)
                made == setupGeometry(geometries, materials, Len(gl1), Len(gl2))
            IN /\ glTextures' = gl2
               /\ parts' = made
               /\ geometries' = [n \in 1..Len(geometries) |->
                    [geometries[n] EXCEPT !.data =
                       [k \in DOMAIN @ \cup {"color"} |->
                          IF k = "color" THEN made[n].bufferInfo.a_color ELSE @[k]]]]
               /\ glState' = bindTexture(glState, Len(gl2))
               /\ pending' = pending + 1      \* requestAnimationFrame(render)
               /\ mainpc' = "rendering"
               /\ UNCHANGED rejectedBy
  /\ UNCHANGED <<objPositions, objTexcoords, objNormals, objColors, materialLibs,
                 geometry, groups, material, object, pc, line, outcome, nlines,
                 seen, base, facePos, handed, mtlVars, images, frames, sampled>>

\* A render that requests two frames.
RenderRequestingTwice ==
  /\ mainpc = "rendering"
  /\ pending > 0
  /\ frames < MaxFrames
  /\ frames' = frames + 1
  /\ LET drawn == drawScene(glState, parts)
     IN glState' = drawn.gl /\ sampled' = drawn.sampled
  /\ pending' = (pending - 1) + 2
  /\ UNCHANGED <<objVars, mtlVars, mainpc, rejectedBy, glTextures, images, parts>>

\* render(time): drawScene, then requestAnimationFrame(render) again.
Render ==
  /\ mainpc = "rendering"
  /\ pending > 0
  /\ frames < MaxFrames
  /\ frames' = frames + 1
  /\ LET drawn == drawScene(glState, parts)
     IN glState' = drawn.gl /\ sampled' = drawn.sampled
  /\ pending' = (pending - 1) + 1            \* requestAnimationFrame(render)
  /\ UNCHANGED <<objVars, mtlVars, mainpc, rejectedBy, glTextures, images, parts>>

\* The load event of an Image: its pixels go into its texture.
ImageLoad ==
  /\ \E i \in 1..Len(images) :
       /\ images[i].state = "loading"
       /\ images' = [images EXCEPT ![i].state = "loaded"]
       /\ glState' = bindTexture(glState, images[i].texture)
       /\ glTextures' = texImage2D(glState', glTextures, [src |-> images[i].src])
  /\ UNCHANGED <<objVars, mtlVars, mainpc, rejectedBy, parts, frames, pending,
                 sampled>>

\* The image cannot be fetched or decoded: no listener, the texture stays.
ImageError ==
  /\ \E i \in 1..Len(images) :
       /\ images[i].state = "loading"
       /\ images' = [images EXCEPT ![i].state = "failed"]
  /\ UNCHANGED <<objVars, mtlVars, mainpc, rejectedBy, glTextures, parts, frames,
                 pending, glState, sampled>>

MainNext ==
  \/ FetchObjRejected \/ LoadOBJ \/ LoadOBJThrew \/ LoadMaterials
  \/ SetupGeometry \/ Render \/ ImageLoad \/ ImageError

SpecMain == Init /\ [][MainNext]_vars

-----------------------------------------------------------------------------
(* What the claims speak of *)

\* The tokens of a line of the texts explored.
Tok(l) == CHOOSE ln \in ObjLines : ln.line = l

\* An array of a geometry's data, empty when absent or when there is no geometry.
arrayOf(gs, n, key) ==
  IF n = 0 \/ key \notin DOMAIN gs[n].data THEN <<>> ELSE gs[n].data[key]

Last(s) == s[Len(s)]

IsPrefix(s, t) == Len(s) <= Len(t) /\ s = SubSeq(t, 1, Len(s))

Returned == pc = "idle" /\ outcome = "returned"

\* The call was entered with the tables and the geometry list as loaded.
Fresh == base = [position |-> 1, texcoord |-> 1, normal |-> 1, color |-> 1,
                 geometries |-> 0]

tableOf(key) ==
  CASE key = "position" -> objPositions [] key = "texcoord" -> objTexcoords
    [] key = "normal" -> objNormals

slotOf(key) ==
  CASE key = "position" -> 1 [] key = "texcoord" -> 2 [] key = "normal" -> 3

\* What the sub-indices of one kind of a face refer to, in fan order.
FaceRefs(value, key) ==
  Flatten([n \in 1..Len(Fan(value, 1)) |->
    LET ptn == split(Fan(value, 1)[n]) IN
      IF Len(ptn) < slotOf(key) \/ ptn[slotOf(key)] = "" THEN <<>>
      ELSE RefersTo(tableOf(key), parseInt(ptn[slotOf(key)]))])

\* The same, a positive sub-index k counting the entries declared by the
\* text of the current call only.
RefersToInText(key, objIndex) ==
  IF objIndex > 0
    THEN (IF base[key] + objIndex <= Len(tableOf(key))
            THEN tableOf(key)[base[key] + objIndex] ELSE <<>>)
    ELSE RefersTo(tableOf(key), objIndex)

FaceRefsInText(value, key) ==
  Flatten([n \in 1..Len(Fan(value, 1)) |->
    LET ptn == split(Fan(value, 1)[n]) IN
      IF Len(ptn) < slotOf(key) \/ ptn[slotOf(key)] = "" THEN <<>>
      ELSE RefersToInText(key, parseInt(ptn[slotOf(key)]))])

\* Every sub-index is valid counted within the text of the current call.
ValidRefsInText(value) ==
  \A n \in 1..Len(value) : \A i \in 1..Len(split(value[n])) :
     LET str == split(value[n])[i] IN
       str # "" => LET k == parseInt(str)
                       inText == Len(objVertexData(i - 1)) - base[dataKey(i - 1)]
                   IN k # 0 /\ k <= inText /\ -k <= inText

HasPositive(value) ==
  \E n \in 1..Len(value) : \E i \in 1..Len(split(value[n])) :
     split(value[n])[i] # "" /\ parseInt(split(value[n])[i]) > 0

HasNegative(value) ==
  \E n \in 1..Len(value) : \E i \in 1..Len(split(value[n])) :
     split(value[n])[i] # "" /\ parseInt(split(value[n])[i]) < 0

\* This step is the loop of ParseObjFile handling the line line'.
ObjStep == pc = "parsing" /\ nlines' = nlines + 1
MtlStep == mpc = "parsing" /\ mlines' = mlines + 1

\* C1: an f line with N >= 3 valid vertex references appends the N-2
\* triangles of the fan (v0,v1,v2), (v0,v2,v3), ... to the current geometry,
\* 3*(N-2) vertices in all.
C1_FanOfEveryFace ==
  [][ObjStep /\ Tok(line').keyword = "f" /\ Len(Tok(line').value) >= 3
        /\ ValidRefs(Tok(line').value)
      => /\ geometry' # 0
         /\ arrayOf(geometries', geometry', "position")
              = arrayOf(geometries, geometry, "position")
                  \o FacePositions(Tok(line').value)]_vars

\* C2: what a face emits for a negative sub-index -k is the k-th most
\* recently appended tuple of the table as it is when the f line is handled
\* (all of the face when the line is handled to its end, the part emitted
\* before the exception otherwise), and a later v, vt or vn line changes
\* nothing any face emitted.
C2_NegativeIndexAtUse ==
  [][ObjStep =>
       /\ Tok(line').keyword = "f" /\ HasNegative(Tok(line').value)
            /\ ValidRefs(Tok(line').value)
          => \A key \in {"position", "texcoord", "normal"} :
               LET old == arrayOf(geometries, geometry, key)
                   new == arrayOf(geometries', geometry', key)
                   all == old \o FaceRefs(Tok(line').value, key)
               IN IF outcome' = "thrown"
                    THEN IsPrefix(old, new) /\ IsPrefix(new, all)
                    ELSE new = all
       /\ Tok(line').keyword \in {"v", "vt", "vn"} => geometries' = geometries]_vars

C2_Witness ==
  /\ pc = "parsing" /\ outcome = "none" /\ line = "f 1 -1 1 -1"
  /\ Len(objPositions) = 3 /\ objPositions[2] # objPositions[3]
  /\ geometry # 0
  /\ arrayOf(geometries, geometry, "position")
       = objPositions[2] \o objPositions[3] \o objPositions[2]
           \o objPositions[2] \o objPositions[2] \o objPositions[3]

\* C3 as claimed: in every call, a positive sub-index k emits the k-th tuple
\* declared by the text being parsed.
C3_PositiveIndexInText ==
  [][ObjStep /\ Tok(line').keyword = "f" /\ HasPositive(Tok(line').value)
        /\ ValidRefsInText(Tok(line').value) /\ outcome' # "thrown"
      => \A key \in {"position", "texcoord", "normal"} :
           arrayOf(geometries', geometry', key)
             = arrayOf(geometries, geometry, key)
                 \o FaceRefsInText(Tok(line').value, key)]_vars

\* C3, amended: a positive sub-index k emits the k-th tuple appended to the
\* table since the module was loaded, by this call or an earlier one (all of
\* the face when the line is handled to its end, the part emitted before the
\* exception otherwise).
C3_PositiveIndexInTable ==
  [][ObjStep /\ Tok(line').keyword = "f" /\ HasPositive(Tok(line').value)
        /\ ValidRefs(Tok(line').value)
      => \A key \in {"position", "texcoord", "normal"} :
           LET old == arrayOf(geometries, geometry, key)
               new == arrayOf(geometries', geometry', key)
               all == old \o FaceRefs(Tok(line').value, key)
           IN IF outcome' = "thrown"
                THEN IsPrefix(old, new) /\ IsPrefix(new, all)
                ELSE new = all]_vars

\* A face is handled to its end in a call that found a declared position,
\* and emits that position for the sub-index 1.
C3_Witness ==
  /\ pc = "parsing" /\ outcome = "none" /\ line = "f 1 2 1"
  /\ base.position = 2 /\ Len(objPositions) = 3
  /\ objPositions[2] # objPositions[3]
  /\ geometry # 0
  /\ arrayOf(geometries, geometry, "position")
       = objPositions[2] \o objPositions[3] \o objPositions[2]

\* The text of the call holds v lines and faces, all references valid, and
\* no usemtl, g or o line.
PlainText ==
  /\ seen \cap {"v", "v rgb"} # {}
  /\ seen \cap {"f", "f /"} # {}
  /\ seen \cap {"f ?", "state"} = {}

OneGeometryOfTheFaces ==
  /\ Len(geometries) = 1
  /\ arrayOf(geometries, 1, "position") = facePos
  /\ seen \cap {"f /", "v rgb"} = {}
       => DOMAIN geometries[1].data \subseteq {"position"}

\* C4: a parse of such a text, in a call entered with the tables and the
\* geometry list as loaded, fails on none of its v and f lines and returns
\* exactly one geometry, which holds the positions of the faces of the text
\* in line order, and no texcoord, normal or color array when the text gives
\* none.
C4_OneGeometry ==
  Fresh /\ PlainText
    => /\ outcome = "thrown" => Tok(line).keyword \notin {"v", "f"}
       /\ Returned => OneGeometryOfTheFaces

\* C5: a face that follows a run of usemtl, g and o lines opens exactly one
\* new geometry, tagged with the object, groups and material as the run left
\* them, and leaves no empty geometry.
C5_RunThenFace ==
  [][ObjStep /\ Fresh /\ seen # {} /\ Tok(line).keyword \in {"usemtl", "g", "o"}
        /\ Tok(line').keyword = "f" /\ Len(Tok(line').value) >= 3
        /\ ValidRefs(Tok(line').value) /\ outcome' # "thrown"
      => /\ Len(geometries') = Len(geometries) + 1
         /\ geometry' = Len(geometries')
         /\ geometries'[geometry'].object = object
         /\ geometries'[geometry'].groups = groups
         /\ geometries'[geometry'].material = material
         /\ \A n \in 1..Len(geometries') :
              arrayOf(geometries', n, "position") # <<>>]_vars

\* C6: in what a call returns, a texcoord, normal or color array is present
\* exactly when a value of it was emitted: a present array is not empty, and
\* an array is only ever removed while empty.
C6_AbsentIffNothingEmitted ==
  /\ [](Returned =>
          \A n \in 1..Len(geometries) : \A key \in {"texcoord", "normal", "color"} :
             key \in DOMAIN geometries[n].data => geometries[n].data[key] # <<>>)
  /\ [][\A n \in 1..Len(geometries) : \A key \in DOMAIN geometries[n].data :
          key \notin DOMAIN geometries'[n].data => geometries[n].data[key] = <<>>]_vars

C6_Witness ==
  /\ Returned
  /\ \E n \in 1..Len(geometries) :
       /\ "texcoord" \in DOMAIN geometries[n].data
       /\ "normal" \notin DOMAIN geometries[n].data
       /\ "color" \notin DOMAIN geometries[n].data

\* C7: a v line with more than 3 tokens appends a position and a color at
\* the same index of their tables; a v line with 3 tokens appends a position
\* and no color.
C7_ColorIndexIsPositionIndex ==
  [][ObjStep /\ Tok(line').keyword = "v"
      => /\ Len(objPositions') = Len(objPositions) + 1
         /\ IF Len(Tok(line').value) > 3
              THEN /\ Len(objColors') = Len(objColors) + 1
                   /\ Len(objColors') = Len(objPositions')
              ELSE objColors' = objColors]_vars

\* C8: a line that is not blank, not a comment and whose keyword is none of
\* the recognized ones changes no state of the parser and does not end the
\* parse, in ParseObjFile and in ParseMaterialFile.
C8_UnknownKeywordSkipped ==
  [][/\ ObjStep /\ line' # "" /\ ~startsWithHash(line')
          /\ Tok(line').keyword \notin ObjKeywords
        => pc' = "parsing" /\ parserVars' = parserVars
     /\ MtlStep /\ Last(mtext').line # "" /\ ~startsWithHash(Last(mtext').line)
          /\ Last(mtext').keyword \notin MtlKeywords
        => mpc' = "parsing" /\ materials' = materials /\ index' = index]_vars

PropertyKeywords == MtlKeywords \ {"newmtl"}

\* What one line writes into the record it is given.
Written(ln) ==
  mtlLine([materials |-> [n \in {"r"} |-> NoRecord], index |-> "r",
           thrown |-> FALSE], ln).materials["r"]

Max(S) == CHOOSE x \in S : \A y \in S : y <= x
Min(S) == CHOOSE x \in S : \A y \in S : x <= y

Opened(text) == {text[i].value[1] : i \in {j \in 1..Len(text) : text[j].keyword = "newmtl"}}

\* The properties the lines of text write between the most recent newmtl of
\* name and the next newmtl or the end of text, the last value of each.
ExpectedRecord(text, name) ==
  LET from == Max({i \in 1..Len(text) :
                    text[i].keyword = "newmtl" /\ text[i].value[1] = name})
      nexts == {i \in (from + 1)..Len(text) : text[i].keyword = "newmtl"}
      to == IF nexts = {} THEN Len(text) ELSE Min(nexts) - 1
      has(k) == {i \in (from + 1)..to : k \in DOMAIN Written(text[i])}
      keys == UNION {DOMAIN Written(text[i]) : i \in (from + 1)..to}
  IN [k \in keys |-> Written(text[Max(has(k))])[k]]

\* C9: as long as ParseMaterialFile has not failed, and so in what it
\* returns, the records are those of the names opened by a newmtl line, and
\* the record of a name holds exactly the properties written between its
\* most recent newmtl and the next newmtl or the end of the text: a property
\* line writes into the record of the most recent newmtl only.
C9_PropertiesOfMostRecentNewmtl ==
  moutcome # "thrown"
    => /\ DOMAIN materials = Opened(mtext)
       /\ \A name \in Opened(mtext) : materials[name] = ExpectedRecord(mtext, name)

C9_Witness ==
  /\ mpc = "idle" /\ moutcome = "returned"
  /\ DOMAIN materials = {"X", "Y"}
  /\ materials["X"] = [diffuse |-> <<1, 0, 0>>]
  /\ materials["Y"] = [shininess |-> 50]

\* C10: a property line handled before any newmtl line ends the call with
\* an exception, and creates or changes no record.
C10_PropertyBeforeNewmtlFails ==
  [][MtlStep /\ Last(mtext').keyword \in PropertyKeywords /\ Opened(mtext) = {}
      => mpc' = "idle" /\ moutcome' = "thrown" /\ materials' = materials]_vars

C10_Witness ==
  /\ mpc = "idle" /\ moutcome = "thrown"
  /\ mtext # <<>> /\ Last(mtext).keyword \in PropertyKeywords
  /\ Opened(SubSeq(mtext, 1, Len(mtext) - 1)) = {}
  /\ DOMAIN materials = {}

\* C11: once a call has returned its result, nothing changes the geometry
\* list, the contents of a geometry or the material-library list of it.
C11_ResultImmutable ==
  [][handed => geometries' = geometries /\ materialLibs' = materialLibs]_vars

\* C14: a face handled to its end has appended its vertices to a geometry
\* whose object, groups and material are the current ones of the parser.
C14_FaceUnderCurrentTags ==
  [][ObjStep /\ Tok(line').keyword = "f" /\ Len(Tok(line').value) >= 3
        /\ ValidRefs(Tok(line').value) /\ outcome' # "thrown"
      => /\ geometry' # 0
         /\ geometries'[geometry'].object = object'
         /\ geometries'[geometry'].groups = groups'
         /\ geometries'[geometry'].material = material']_vars

\* C15: every geometry of a returned list has a position array, and it is
\* not empty.
C15_NoEmptyGeometryReturned ==
  Returned => \A n \in 1..Len(geometries) :
                /\ "position" \in DOMAIN geometries[n].data
                /\ geometries[n].data.position # <<>>

\* C16: a usemtl, g or o line handled while the current geometry holds a
\* position leaves no current geometry; only the current geometry is ever
\* appended to; a geometry that stopped being the current one never is it
\* again; and a face handled while there is no current geometry appends a
\* new one at the end of the list.
C16_ClosedGeometryStaysClosed ==
  [][/\ ObjStep /\ Tok(line').keyword \in {"usemtl", "g", "o"}
          /\ arrayOf(geometries, geometry, "position") # <<>>
        => geometry' = 0 /\ geometries' = geometries
     /\ \A n \in 1..Len(geometries) : \A key \in DataKeys :
          n # geometry =>
            Len(arrayOf(geometries', n, key)) <= Len(arrayOf(geometries, n, key))
     /\ geometry' # geometry
          => geometry' = 0
               \/ (geometry = 0 /\ geometry' = Len(geometries) + 1)
     /\ ObjStep /\ Tok(line').keyword = "f" /\ geometry = 0
        => /\ Len(geometries') = Len(geometries) + 1
           /\ geometry' = Len(geometries')
           /\ SubSeq(geometries', 1, Len(geometries)) = geometries]_vars

C16_Witness ==
  /\ pc = "parsing" /\ outcome = "none"
  /\ Tok(line).keyword = "f"
  /\ Len(geometries) = 2 /\ geometry = 2
  /\ arrayOf(geometries, 1, "position") # <<>>
  /\ arrayOf(geometries, 2, "position") # <<>>
  /\ geometries[1].material # geometries[2].material

\* C17: every index table only grows at its end, keeps the zero tuple at its
\* first place, and changes only on a line of its keyword: v for positions
\* and colors, vt for texcoords, vn for normals.
C17_TablesAppendOnly ==
  [][/\ IsPrefix(objPositions, objPositions') /\ objPositions'[1] = <<0, 0, 0>>
     /\ IsPrefix(objTexcoords, objTexcoords') /\ objTexcoords'[1] = <<0, 0>>
     /\ IsPrefix(objNormals, objNormals') /\ objNormals'[1] = <<0, 0, 0>>
     /\ IsPrefix(objColors, objColors') /\ objColors'[1] = <<0, 0, 0>>
     /\ objPositions' # objPositions \/ objColors' # objColors
          => ObjStep /\ Tok(line').keyword = "v"
     /\ objTexcoords' # objTexcoords => ObjStep /\ Tok(line').keyword = "vt"
     /\ objNormals' # objNormals => ObjStep /\ Tok(line').keyword = "vn"]_vars

C17_Witness ==
  /\ base.position = 2 /\ Len(objPositions) = 3
  /\ Len(objTexcoords) = 2 /\ Len(objColors) = 2 /\ Len(objNormals) = 2
  /\ Tok(line).keyword \in {"v", "vt", "vn"}

\* The vertices of the fan of a face that carry a texcoord sub-index.
WithTexcoord(value) ==
  {n \in 1..Len(Fan(value, 1)) :
     Len(split(Fan(value, 1)[n])) >= 2 /\ split(Fan(value, 1)[n])[2] # ""}

\* C18: a face handled to its end appends 3 position components for each
\* vertex of its fan and 2 texcoord components for each vertex of it that
\* carries a texcoord sub-index.
C18_FixedStride ==
  [][ObjStep /\ Tok(line').keyword = "f" /\ ValidRefs(Tok(line').value)
        /\ outcome' # "thrown"
      => /\ Len(arrayOf(geometries', geometry', "position"))
              = Len(arrayOf(geometries, geometry, "position"))
                  + 3 * Len(Fan(Tok(line').value, 1))
         /\ Len(arrayOf(geometries', geometry', "texcoord"))
              = Len(arrayOf(geometries, geometry, "texcoord"))
                  + 2 * Cardinality(WithTexcoord(Tok(line').value))]_vars

\* C19: the entry of a call changes nothing of the parser state; the
\* geometry list and the material-library list only grow, a geometry keeps
\* its tags and what its arrays hold, so what a call returns holds the
\* geometries and the libraries of the calls before it; and a face of a
\* later call emits the positions of the accumulated table.
C19_NothingResetBetweenCalls ==
  [][/\ pc = "idle" /\ pc' = "parsing" => parserVars' = parserVars
     /\ IsPrefix(materialLibs, materialLibs')
     /\ Len(geometries) <= Len(geometries')
     /\ \A n \in 1..Len(geometries) :
          /\ geometries'[n].object = geometries[n].object
          /\ geometries'[n].groups = geometries[n].groups
          /\ geometries'[n].material = geometries[n].material
          /\ \A key \in DataKeys :
               IsPrefix(arrayOf(geometries, n, key), arrayOf(geometries', n, key))
     /\ ObjStep /\ Tok(line').keyword = "f" /\ ValidRefs(Tok(line').value)
          /\ outcome' # "thrown"
        => arrayOf(geometries', geometry', "position")
             = arrayOf(geometries, geometry, "position")
                 \o FaceRefs(Tok(line').value, "position")]_vars

C19_Witness ==
  /\ Returned
  /\ base.geometries = 1 /\ base.position = 2
  /\ Len(geometries) = 2
  /\ arrayOf(geometries, 1, "position") # <<>>
  /\ facePos # <<>>
  /\ arrayOf(geometries, 2, "position") = facePos

\* The properties of a material the shaders draw with, and their defaults.
DrawnProperties ==
  {"diffuse", "ambient", "specular", "shininess", "opacity", "diffuseMap",
   "specularMap"}

\* The texture is the one createTexture made for the file.
TextureOfFile(texture, filename) ==
  \E i \in 1..Len(images) :
    images[i].texture = texture /\ images[i].src = href(filename)

WhitePixel(texture) ==
  /\ texture \in 1..Len(glTextures)
  /\ glTextures[texture] = [width |-> 1, height |-> 1, pixel |-> <<255, 255, 255, 255>>]

IsDefault(property, val) ==
  CASE property = "diffuse" -> val = <<1, 1, 1>>
    [] property = "ambient" -> val = <<0, 0, 0>>
    [] property = "specular" -> val = <<1, 1, 1>>
    [] property = "shininess" -> val = 400
    [] property = "opacity" -> val = 1
    [] property \in {"diffuseMap", "specularMap"} -> WhitePixel(val)

\* C12: each property a part is drawn with is the value the MTL record of
\* the material of its geometry sets (for a map, the texture of the file it
\* names), and the default when the record does not set it or there is no
\* record of that name.
C12_DrawnWithRecordOrDefault ==
  mainpc = "rendering" =>
    \A n \in 1..Len(parts) : \A property \in DrawnProperties :
      LET name == geometries[n].material
          val == parts[n].material[property]
      IN IF name \in Opened(mtext) /\ property \in DOMAIN ExpectedRecord(mtext, name)
           THEN IF endsWithMap(property)
                  THEN TextureOfFile(val, ExpectedRecord(mtext, name)[property])
                  ELSE val = ExpectedRecord(mtext, name)[property]
           ELSE IsDefault(property, val)

\* C13: main is never rejected by a fetch of an MTL file that fails, and an
\* image that fails to load leaves its 1x1 placeholder in its texture.
C13_FetchFailureRecovered ==
  /\ rejectedBy # "fetch mtl"
  /\ \A i \in 1..Len(images) :
       images[i].state = "failed"
         => glTextures[images[i].texture]
              = [width |-> 1, height |-> 1, pixel |-> <<128, 192, 255, 255>>]

\* The map properties the text of the MTL files sets: <<name, key>>.
MapProperties ==
  {nk \in Opened(mtext) \X {"diffuseMap", "specularMap"} :
     nk[2] \in DOMAIN ExpectedRecord(mtext, nk[1])}

\* C20: no two images are requested for one file, and once loadMaterials
\* has returned, every map property holds the texture created for the file
\* it named, the same texture for the same file.
C20_OneTexturePerFile ==
  /\ \A i, j \in 1..Len(images) : images[i].src = images[j].src => i = j
  /\ moutcome = "returned" =>
       \A nk \in MapProperties :
         /\ TextureOfFile(materials[nk[1]][nk[2]],
                          ExpectedRecord(mtext, nk[1])[nk[2]])
         /\ \A other \in MapProperties :
              ExpectedRecord(mtext, nk[1])[nk[2]]
                  = ExpectedRecord(mtext, other[1])[other[2]]
                => materials[nk[1]][nk[2]] = materials[other[1]][other[2]]

C20_Witness ==
  /\ moutcome = "returned"
  /\ Cardinality(MapProperties) = 3
  /\ Len(images) = 1
  /\ materials["m1"].diffuseMap = materials["X"].diffuseMap
  /\ materials["m1"].diffuseMap = materials["m1"].specularMap

\* C23: a geometry of a returned list that has a color array has as many
\* color components as position components.
C23_ColorAsLongAsPosition ==
  Returned => \A n \in 1..Len(geometries) :
                "color" \in DOMAIN geometries[n].data
                  => Len(geometries[n].data.color)
                       = Len(arrayOf(geometries, n, "position"))

\* C24: an f line is never handled with a current geometry that lacks one
\* of its four arrays (a current geometry that holds positions, here: one
\* a face of an earlier call emitted into).
C24_FaceFindsItsArrays ==
  [][ObjStep /\ Tok(line').keyword = "f"
        /\ arrayOf(geometries, geometry, "position") # <<>>
       => DOMAIN geometries[geometry].data = DataKeys]_vars

\* What a texture holds before the image of its file is in it.
PlaceholderPixel ==
  [width |-> 1, height |-> 1, pixel |-> <<128, 192, 255, 255>>]

\* C21: the texture of an image holds the placeholder pixel until the load
\* event of that image and the image after it, whatever the other images
\* and the frames did meanwhile; a texture without an image stays the white
\* pixel; and every frame samples, for each part, the two textures of the
\* material of that part.
C21_LoadsInAnyOrder ==
  /\ \A t \in 1..Len(glTextures) :
       IF \E i \in 1..Len(images) : images[i].texture = t
         THEN \A i \in 1..Len(images) :
                images[i].texture = t
                  => glTextures[t] = IF images[i].state = "loaded"
                                       THEN [src |-> images[i].src]
                                       ELSE PlaceholderPixel
         ELSE WhitePixel(t)
  /\ frames > 0 =>
       /\ Len(sampled) = Len(parts)
       /\ \A n \in 1..Len(parts) :
            /\ sampled[n].diffuseMap = parts[n].material.diffuseMap
            /\ sampled[n].specularMap = parts[n].material.specularMap

\* A frame was drawn, then the image of the diffuse map loaded while that
\* of the specular map has not: its load left its texture bound to the
\* unit the specular sampler reads.
C21_Witness ==
  /\ frames = 1 /\ Len(images) = 2 /\ Len(parts) = 1
  /\ images[1].state = "loaded" /\ images[2].state = "loading"
  /\ parts[1].material.diffuseMap = images[1].texture
  /\ parts[1].material.specularMap = images[2].texture
  /\ glState.bound[glState.uniforms.specularMap] = images[1].texture

\* C22: the material files are fetched, and textures created, only once
\* ParseObjFile has returned; a frame is drawn or requested only once
\* loadMaterials has returned too; and while frames are drawn exactly one
\* frame callback is pending.
C22_LoadOrder ==
  /\ (moutcome # "none" \/ rejectedBy \in {"fetch mtl", "ParseMaterialFile"}
        \/ glTextures # <<>>) => Returned
  /\ (frames > 0 \/ pending > 0)
       => Returned /\ moutcome = "returned" /\ mainpc = "rendering"
  /\ pending <= 1
  /\ mainpc = "rendering" => pending = 1

C22_Witness ==
  /\ frames = 2 /\ pending = 1
  /\ materialLibs = <<"a.mtl">> /\ moutcome = "returned"
  /\ Len(images) = 2

====
